---- MODULE Spec2Model ----
(***************************************************************************)
(* Model of scheduler_app.py: the Appointment value type and the           *)
(* SchedulingApp store (in-memory list + JSON backing file).               *)
(*                                                                         *)
(* A datetime is modelled as a whole number of minutes since midnight of   *)
(* day 0; the ISO-8601 text of a datetime as the tuple <<day, hour,        *)
(* minute>> of the fields the text spells out.  A str of decimal digits is *)
(* the sequence of its digits.  A dict is a TLA+ record, a missing key is  *)
(* a field missing from its DOMAIN.  The wall clock is read in whole       *)
(* microseconds (the resolution of datetime.now()).                        *)
(***************************************************************************)
EXTENDS Integers, Sequences, FiniteSets, TLC

VARIABLES
    phase,          \* "start" before SchedulingApp() is constructed, "ready" after, "aborted" when construction raised
    appointments,   \* self.appointments: the in-memory list
    file,           \* content of self.data_file on disk
    clock,          \* last wall-clock reading (microseconds)
    faults,         \* number of I/O failures the environment has produced so far
    last            \* the most recent call on the store and what it did

vars == <<phase, appointments, file, clock, faults, last>>

----------------------------------------------------------------------------
(* Bounds of the model *)

MaxAppts == 2       \* appends are explored while the list is shorter than this
MaxFaults == 1      \* I/O failures injected per behaviour

\* The readings datetime.now() gives, in microseconds; a reading is never
\* below the one before it
Readings == {0, 1}
\* The datetimes callers pass: 00:59 and 01:00 of day 0, 00:00 of day 1
Times == {59, 60, 24 * 60}
\* What callers pass with a start time: title, description, location
\* (the earliest start comes with the defaults of the optional arguments)
Details(start_time) == IF start_time = 59 THEN <<"a", "", "">> ELSE <<"b", "d", "l">>
\* What input() returns at the conflict prompt
Responses == {"y", "Y", "n"}

----------------------------------------------------------------------------
(* Python built-ins used by the code *)

RECURSIVE Str(_)
\* str(n) for a non-negative int: its decimal digits
Str(n) == IF n < 10 THEN <<n>> ELSE Str(n \div 10) \o <<n % 10>>

\* a comparison that forgets to lower-case the answer
Lower_forgotten(s) == s

\* str.lower() on the answers the prompt is given
Lower(s) == IF s = "Y" THEN "y" ELSE IF s = "YES" THEN "yes" ELSE s

\* datetime.isoformat(): the date, the hour and the minute, spelled out
isoformat(t) == <<t \div (24 * 60), (t % (24 * 60)) \div 60, t % 60>>

\* datetime.fromisoformat() raises ValueError on a field out of range
IsoParses(s) == s[1] >= 0 /\ s[2] \in 0..23 /\ s[3] \in 0..59

fromisoformat(s) == s[1] * (24 * 60) + s[2] * 60 + s[3]

\* dict.get(key, default)
Get(d, k, default) == IF k \in DOMAIN d THEN d[k] ELSE default

----------------------------------------------------------------------------
(* class Appointment *)

\* int(datetime.now().timestamp() * 1000000): the reading in whole microseconds
_generate_id(now) == Str(now)

Appointment(title, start_time, end_time, description, location, now) ==
    [id |-> _generate_id(now), title |-> title,
     start_time |-> start_time, end_time |-> end_time,
     description |-> description, location |-> location]

\* a serializer that writes description and location under each other's key
to_dict_swapped(apt) ==
    [id |-> apt.id, title |-> apt.title,
     start_time |-> isoformat(apt.start_time),
     end_time |-> isoformat(apt.end_time),
     description |-> apt.location, location |-> apt.description]

to_dict(apt) ==
    [id |-> apt.id, title |-> apt.title,
     start_time |-> isoformat(apt.start_time),
     end_time |-> isoformat(apt.end_time),
     description |-> apt.description, location |-> apt.location]

\* The exception from_dict raises on data, "none" when it returns; the
\* keyword arguments are evaluated in order, data['id'] is read last.
from_dict_raises(data) ==
    IF "title" \notin DOMAIN data THEN "KeyError"
    ELSE IF "start_time" \notin DOMAIN data THEN "KeyError"
    ELSE IF ~IsoParses(data.start_time) THEN "ValueError"
    ELSE IF "end_time" \notin DOMAIN data THEN "KeyError"
    ELSE IF ~IsoParses(data.end_time) THEN "ValueError"
    ELSE IF "id" \notin DOMAIN data THEN "KeyError"
    ELSE "none"

from_dict(data, now) ==
    [Appointment(data.title,
                 fromisoformat(data.start_time),
                 fromisoformat(data.end_time),
                 Get(data, "description", ""),
                 Get(data, "location", ""),
                 now)
        EXCEPT !.id = data.id]

\* a test that takes touching intervals for overlapping ones
overlaps_with_closed(self, other) ==
    self.start_time <= other.end_time /\ self.end_time >= other.start_time

overlaps_with(self, other) ==
    self.start_time < other.end_time /\ self.end_time > other.start_time

----------------------------------------------------------------------------
(* The backing file.  kind is "missing" (no such path), "invalid" (text    *)
(* that is not JSON, a truncated write included), "nonlist" (a JSON value  *)
(* that cannot be iterated, such as a number) or "list" (a JSON array of   *)
(* objects, held in data).                                                 *)

NoFile == [kind |-> "missing", data |-> <<>>]
InvalidJson == [kind |-> "invalid", data |-> <<>>]
NonList == [kind |-> "nonlist", data |-> <<>>]

\* json.dump(data, f, indent=2) into a freshly truncated file
json_dump(data) == [kind |-> "list", data |-> data]

\* Records an existing file may hold: well-formed ones (two with the same
\* id, the second without the optional keys; one with its end before its
\* start) and malformed ones.  Their ids are ones no clock reading of the
\* model produces.
GoodDict == [to_dict(Appointment("a", 59, 60, "", "", 0)) EXCEPT !.id = <<5>>]
SameIdDict == [id |-> <<5>>, title |-> "b", start_time |-> isoformat(60), end_time |-> isoformat(24 * 60)]
BackwardsDict == [to_dict(Appointment("b", 60, 59, "d", "l", 0)) EXCEPT !.id = <<7>>]
NoTitleDict == [id |-> <<6>>, start_time |-> isoformat(59), end_time |-> isoformat(60), description |-> "", location |-> ""]
NoIdDict == [title |-> "a", start_time |-> isoformat(59), end_time |-> isoformat(60), description |-> "", location |-> ""]
BadTimeDict == [GoodDict EXCEPT !.end_time = <<0, 24, 0>>]

\* What the file holds when the app starts
InitFiles ==
    {NoFile, InvalidJson, NonList, json_dump(<<>>),
     json_dump(<<GoodDict>>), json_dump(<<BackwardsDict>>), json_dump(<<GoodDict, SameIdDict>>),
     json_dump(<<NoTitleDict>>), json_dump(<<NoIdDict>>), json_dump(<<BadTimeDict>>),
     json_dump(<<GoodDict, NoIdDict>>), json_dump(<<GoodDict, BadTimeDict>>),
     json_dump(<<NoTitleDict, BadTimeDict>>), json_dump(<<BadTimeDict, NoTitleDict>>)}

----------------------------------------------------------------------------
(* class SchedulingApp *)

RECURSIVE first_error(_, _)
\* The exception the comprehension [Appointment.from_dict(apt) for apt in data]
\* stops on: that of the first element from_dict raises on.
first_error(data, i) ==
    IF i > Len(data) THEN "none"
    ELSE IF from_dict_raises(data[i]) # "none" THEN from_dict_raises(data[i])
    ELSE first_error(data, i + 1)

\* load_appointments: the list afterwards, the exception that leaves the
\* call (only json.JSONDecodeError and KeyError are caught) and whether
\* "Error loading appointments" was printed.
load_appointments(appts, f, io, now) ==
    IF f.kind = "missing" THEN
        [appointments |-> appts, raised |-> "none", reported |-> FALSE]
    ELSE IF io = "open_fails" THEN
        [appointments |-> appts, raised |-> "OSError", reported |-> FALSE]
    ELSE IF f.kind = "invalid" THEN
        [appointments |-> <<>>, raised |-> "none", reported |-> TRUE]
    ELSE IF f.kind = "nonlist" THEN
        [appointments |-> appts, raised |-> "TypeError", reported |-> FALSE]
    ELSE IF first_error(f.data, 1) = "KeyError" THEN
        [appointments |-> <<>>, raised |-> "none", reported |-> TRUE]
    ELSE IF first_error(f.data, 1) = "ValueError" THEN
        [appointments |-> appts, raised |-> "ValueError", reported |-> FALSE]
    ELSE
        [appointments |-> [i \in 1..Len(f.data) |-> from_dict(f.data[i], now)],
         raised |-> "none", reported |-> FALSE]

\* a save that writes the list back to front
save_appointments_reversed(appts, f, io) ==
    IF io = "ok" THEN json_dump([i \in 1..Len(appts) |-> to_dict(appts[Len(appts) + 1 - i])])
    ELSE IF io = "open_fails" THEN f
    ELSE InvalidJson

\* a save whose failed write has nevertheless put the whole list in the file
save_appointments_leaky(appts, f, io) ==
    IF io = "open_fails" THEN f
    ELSE json_dump([i \in 1..Len(appts) |-> to_dict(appts[i])])

\* save_appointments: the file afterwards.  open(..., 'w') may fail and
\* leave the file alone, or succeed (truncating it) with the write failing.
save_appointments(appts, f, io) ==
    IF io = "ok" THEN json_dump([i \in 1..Len(appts) |-> to_dict(appts[i])])
    ELSE IF io = "open_fails" THEN f
    ELSE InvalidJson

RECURSIVE find_conflicts_from(_, _, _)
find_conflicts_from(appts, appointment, i) ==
    IF i > Len(appts) THEN <<>>
    ELSE IF overlaps_with(appointment, appts[i])
         THEN <<appts[i]>> \o find_conflicts_from(appts, appointment, i + 1)
         ELSE find_conflicts_from(appts, appointment, i + 1)

RECURSIVE find_conflicts_prepending(_, _)
\* a scan that inserts each conflict at the front of the result
find_conflicts_prepending(appts, appointment) ==
    IF appts = <<>> THEN <<>>
    ELSE LET rest == find_conflicts_prepending(Tail(appts), appointment) IN
         IF overlaps_with(appointment, Head(appts)) THEN rest \o <<Head(appts)>> ELSE rest

find_conflicts(appts, appointment) == find_conflicts_from(appts, appointment, 1)

\* index of the first appointment with this id, 0 when there is none
first_index(appts, appointment_id) ==
    IF \E i \in 1..Len(appts) : appts[i].id = appointment_id
    THEN CHOOSE i \in 1..Len(appts) :
            /\ appts[i].id = appointment_id
            /\ \A j \in 1..(i - 1) : appts[j].id # appointment_id
    ELSE 0

\* list.pop(i)
pop(appts, i) == [k \in 1..(Len(appts) - 1) |-> IF k < i THEN appts[k] ELSE appts[k + 1]]

----------------------------------------------------------------------------
(* The record of a call *)

Call(name, args) ==
    [name |-> name, args |-> args, conflicts |-> <<>>,
     prompted |-> FALSE, response |-> "", save |-> "none", result |-> "None",
     raised |-> "none", reported |-> FALSE]

IoCost(io) == IF io = "ok" THEN 0 ELSE 1

Init ==
    /\ phase = "start"
    /\ appointments = <<>>
    /\ file \in InitFiles
    /\ clock = 0
    /\ faults = 0
    /\ last = Call("none", <<>>)

\* app = SchedulingApp(): __init__ sets the empty list and loads once; an
\* exception leaving load_appointments leaves __init__ and main().
Construct(io) ==
    /\ phase = "start"
    /\ faults + IoCost(io) <= MaxFaults
    /\ io = "open_fails" => file.kind # "missing"
    /\ LET r == load_appointments(<<>>, file, io, clock) IN
        /\ appointments' = r.appointments
        /\ phase' = IF r.raised = "none" THEN "ready" ELSE "aborted"
        /\ last' = [Call("construct", <<>>) EXCEPT !.raised = r.raised, !.reported = r.reported]
    /\ faults' = faults + IoCost(io)
    /\ UNCHANGED <<file, clock>>

Load(io) ==
    /\ phase = "ready"
    /\ faults + IoCost(io) <= MaxFaults
    /\ io = "open_fails" => file.kind # "missing"
    /\ LET r == load_appointments(appointments, file, io, clock) IN
        /\ appointments' = r.appointments
        /\ last' = [Call("load", <<>>) EXCEPT !.raised = r.raised, !.reported = r.reported]
    /\ faults' = faults + IoCost(io)
    /\ UNCHANGED <<phase, file, clock>>

Save(io) ==
    /\ phase = "ready"
    /\ faults + IoCost(io) <= MaxFaults
    /\ file' = save_appointments(appointments, file, io)
    /\ last' = [Call("save", <<>>) EXCEPT !.save = io, !.reported = (io # "ok")]
    /\ faults' = faults + IoCost(io)
    /\ UNCHANGED <<phase, appointments, clock>>

\* a validation that lets an empty interval through
rejects_strict(start_time, end_time) == start_time > end_time

\* the validation at the head of add_appointment
rejects(start_time, end_time) == start_time >= end_time

\* add_appointment.  now is the clock reading Appointment.__init__ takes,
\* response what input() returns at the prompt, io what happens to the write.
add_appointment(title, start_time, end_time, description, location, now, response, io) ==
    LET call == Call("add", <<title, start_time, end_time, description, location>>)
        new_appointment == Appointment(title, start_time, end_time, description, location, now)
        conflicts == find_conflicts(appointments, new_appointment)
    IN
    IF rejects(start_time, end_time) THEN
        /\ last' = [call EXCEPT !.result = "False", !.reported = TRUE]
        /\ UNCHANGED <<appointments, file, clock, faults>>
    ELSE IF conflicts # <<>> /\ Lower(response) # "y" THEN
        /\ clock' = now
        /\ last' = [call EXCEPT !.conflicts = conflicts,
                                !.prompted = TRUE, !.response = response, !.result = "False"]
        /\ UNCHANGED <<appointments, file, faults>>
    ELSE
        /\ Len(appointments) < MaxAppts
        /\ faults + IoCost(io) <= MaxFaults
        /\ clock' = now
        /\ appointments' = Append(appointments, new_appointment)
        /\ file' = save_appointments(appointments', file, io)
        /\ faults' = faults + IoCost(io)
        /\ last' = [call EXCEPT !.conflicts = conflicts,
                                !.prompted = (conflicts # <<>>),
                                !.response = IF conflicts # <<>> THEN response ELSE "",
                                !.save = io, !.reported = (io # "ok"), !.result = "True"]

\* the outcomes the environment may give an I/O call
IoOutcomes == IF faults < MaxFaults THEN {"ok", "open_fails", "write_fails"} ELSE {"ok"}

\* The shell's add command; inputs a call does not read are not varied.
Add ==
    /\ phase = "ready"
    /\ \E start_time \in Times, end_time \in Times :
        LET title == Details(start_time)[1]
            description == Details(start_time)[2]
            location == Details(start_time)[3]
        IN
        IF rejects(start_time, end_time) THEN
            add_appointment(title, start_time, end_time, description, location, clock, "", "ok")
        ELSE
            \E now \in {r \in Readings : r >= clock} :
                LET prompts == \E i \in 1..Len(appointments) :
                        overlaps_with([start_time |-> start_time, end_time |-> end_time],
                                      appointments[i])
                IN
                \E response \in (IF prompts THEN Responses ELSE {""}) :
                    \E io \in (IF prompts /\ Lower(response) # "y" THEN {"ok"} ELSE IoOutcomes) :
                        add_appointment(title, start_time, end_time, description, location,
                                        now, response, io)
    /\ UNCHANGED phase

remove_appointment(appointment_id, io) ==
    LET call == Call("remove", <<appointment_id>>)
        i == first_index(appointments, appointment_id)
    IN
    IF i # 0 THEN
        /\ faults + IoCost(io) <= MaxFaults
        /\ appointments' = pop(appointments, i)
        /\ file' = save_appointments(appointments', file, io)
        /\ faults' = faults + IoCost(io)
        /\ last' = [call EXCEPT !.save = io, !.reported = (io # "ok"), !.result = "True"]
    ELSE
        /\ last' = [call EXCEPT !.result = "False"]
        /\ UNCHANGED <<appointments, file, faults>>

\* the ids callers ask to remove: the ones the clock can give, and two of the file's
RemoveIds == {Str(n) : n \in Readings} \cup {<<5>>, <<7>>}

Remove ==
    /\ phase = "ready"
    /\ \E appointment_id \in RemoveIds :
        \E io \in (IF first_index(appointments, appointment_id) = 0 THEN {"ok"} ELSE IoOutcomes) :
            remove_appointment(appointment_id, io)
    /\ UNCHANGED <<phase, clock>>

\* a caller's find_conflicts(candidate) for a candidate it constructed
FindConflicts ==
    /\ phase = "ready"
    /\ \E start_time \in Times, end_time \in Times :
        LET candidate == Appointment("a", start_time, end_time, "", "", clock) IN
        last' = [Call("find_conflicts", <<candidate>>)
                    EXCEPT !.conflicts = find_conflicts(appointments, candidate)]
    /\ UNCHANGED <<phase, appointments, file, clock, faults>>

Next ==
    \/ \E io \in {"ok", "open_fails"} : Construct(io)
    \/ \E io \in {"ok", "open_fails"} : Load(io)
    \/ \E io \in {"ok", "open_fails", "write_fails"} : Save(io)
    \/ Add
    \/ Remove

Spec == Init /\ [][Next]_vars

----------------------------------------------------------------------------
(* find_conflicts on its own: the store holds any list add_appointment can *)
(* have built (ids in the order the clock gave them), saved to the file.   *)

\* the records add_appointment stores when the clock reads now
StoredRecords(now) ==
    {Appointment(Details(t[1])[1], t[1], t[2], Details(t[1])[2], Details(t[1])[3], now) :
        t \in {u \in Times \X Times : ~rejects(u[1], u[2])}}

RECURSIVE StoredLists(_, _)
\* the lists of at most n records whose readings are at most latest, in clock order
StoredLists(n, latest) ==
    IF n = 0 THEN {<<>>}
    ELSE {<<>>} \cup
         UNION {{Append(l, r) : l \in StoredLists(n - 1, now), r \in StoredRecords(now)} :
                    now \in {q \in Readings : q <= latest}}

InitQuery ==
    /\ phase = "ready"
    /\ clock \in Readings
    /\ appointments \in StoredLists(MaxAppts, clock)
    /\ file = save_appointments(appointments, NoFile, "ok")
    /\ faults = 0
    /\ last = Call("none", <<>>)

SpecQuery == InitQuery /\ [][FindConflicts]_vars

----------------------------------------------------------------------------
(* overlaps_with and the date queries on their own.  The datetimes here    *)
(* reach into day 1: 00:59 and 01:00 of day 0, then 00:00, 00:59 and 01:00 *)
(* of day 1.  datetime.now() is drawn as a datetime, apart from the        *)
(* microsecond readings the ids are made of: the code never compares an id *)
(* with a time.                                                            *)

ViewTimes == {59, 60, 24 * 60, 24 * 60 + 59, 24 * 60 + 60}
\* the intervals of the stored appointments: two with the same start, one
\* across midnight, one starting at midnight, one a day after the first
ViewIntervals ==
    {<<59, 60>>, <<59, 24 * 60>>, <<60, 24 * 60 + 60>>,
     <<24 * 60, 24 * 60 + 60>>, <<24 * 60 + 59, 24 * 60 + 60>>}
\* what datetime.now() returns to the queries
NowTimes == {59, 60}
\* the days argument of get_upcoming_appointments
Days == {0, 1}
\* the date argument: day 0 at 01:00, day 1 at 00:00 and at 00:59
Dates == {60, 24 * 60, 24 * 60 + 59}

\* a call that returns a list
ViewCall(name, args, returned) == [returned |-> returned] @@ Call(name, args)

\* timedelta(days=days), in minutes
timedelta(days) == days * (24 * 60)

\* date.replace(hour=0, minute=0, second=0, microsecond=0)
\* a day that starts at the time of day the date carries
start_of_day_unreplaced(date) == date

start_of_day(date) == (date \div (24 * 60)) * (24 * 60)

RECURSIVE filter_by_start(_, _, _, _)
\* [apt for apt in appts if IF closed THEN lo <= apt.start_time <= hi
\*                          ELSE lo <= apt.start_time < hi]
filter_by_start(appts, lo, hi, closed) ==
    IF appts = <<>> THEN <<>>
    ELSE LET apt == Head(appts)
             rest == filter_by_start(Tail(appts), lo, hi, closed)
         IN
         IF lo <= apt.start_time /\ (apt.start_time < hi \/ (closed /\ apt.start_time = hi))
         THEN <<apt>> \o rest
         ELSE rest

RECURSIVE sorted_by_start(_)
\* sorted(l, key=lambda x: x.start_time) and list.sort with that key: stable,
\* each element goes after those that do not start later
sorted_by_start(l) ==
    IF l = <<>> THEN <<>>
    ELSE LET x == l[Len(l)]
             s == sorted_by_start(SubSeq(l, 1, Len(l) - 1))
             k == Cardinality({i \in 1..Len(s) : s[i].start_time <= x.start_time})
         IN SubSeq(s, 1, k) \o <<x>> \o SubSeq(s, k + 1, Len(s))

\* get_appointments_for_date: the list returned, and whether it is the
\* store's own list object (a comprehension builds a new one)
get_appointments_for_date(appts, date) ==
    LET start_of == start_of_day(date)
        end_of_day == start_of + timedelta(1)
    IN [list |-> filter_by_start(appts, start_of, end_of_day, FALSE), is_store |-> FALSE]

\* a query that stops short of the end of its range
get_upcoming_half_open(appts, days, now) ==
    sorted_by_start(filter_by_start(appts, now, now + timedelta(days), FALSE))

get_upcoming_appointments(appts, days, now) ==
    LET future_date == now + timedelta(days)
        upcoming == filter_by_start(appts, now, future_date, TRUE)
    IN sorted_by_start(upcoming)

\* the records add_appointment stores for the intervals of ViewIntervals
ViewRecords(now) ==
    {Appointment(Details(t[1])[1], t[1], t[2], Details(t[1])[2], Details(t[1])[3], now) :
        t \in ViewIntervals}

RECURSIVE ViewLists(_, _)
\* the lists of at most n such records whose readings are at most latest, in clock order
ViewLists(n, latest) ==
    IF n = 0 THEN {<<>>}
    ELSE {<<>>} \cup
         UNION {{Append(l, r) : l \in ViewLists(n - 1, now), r \in ViewRecords(now)} :
                    now \in {q \in Readings : q <= latest}}

InitViews ==
    /\ phase = "ready"
    /\ clock \in Readings
    /\ appointments \in ViewLists(MaxAppts, clock)
    /\ file = save_appointments(appointments, NoFile, "ok")
    /\ faults = 0
    /\ last = Call("none", <<>>)

\* a caller's get_upcoming_appointments(days)
GetUpcoming ==
    /\ phase = "ready"
    /\ \E days \in Days, now \in NowTimes :
        last' = ViewCall("get_upcoming_appointments", <<days, now>>,
                         get_upcoming_appointments(appointments, days, now))
    /\ UNCHANGED <<phase, appointments, file, clock, faults>>

\* a caller's get_appointments_for_date(date)
GetForDate ==
    /\ phase = "ready"
    /\ \E date \in Dates :
        last' = ViewCall("get_appointments_for_date", <<date>>,
                         get_appointments_for_date(appointments, date).list)
    /\ UNCHANGED <<phase, appointments, file, clock, faults>>

\* display_schedule(date), date being the argument or, without one,
\* datetime.now(): it sorts the list it got in place and prints it.  The
\* sort reorders the store only if that list is the store's own.
DisplaySchedule ==
    /\ phase = "ready"
    /\ \E date \in Dates :
        LET got == get_appointments_for_date(appointments, date)
            shown == sorted_by_start(got.list)
        IN
        /\ appointments' = IF got.is_store THEN shown ELSE appointments
        /\ last' = ViewCall("display_schedule", <<date>>, shown)
    /\ UNCHANGED <<phase, file, clock, faults>>

NextViews ==
    \/ GetUpcoming
    \/ GetForDate
    \/ DisplaySchedule

SpecViews == InitViews /\ [][NextViews]_vars

\* the store right after construction without a file
InitOverlap ==
    /\ phase = "ready"
    /\ appointments = <<>>
    /\ file = NoFile
    /\ clock = 0
    /\ faults = 0
    /\ last = Call("none", <<>>)

\* self.overlaps_with(other) for two appointments a caller constructed,
\* empty and backwards intervals included
OverlapsWith ==
    /\ phase = "ready"
    /\ \E s \in ViewTimes \X ViewTimes, o \in ViewTimes \X ViewTimes :
        LET self == Appointment(Details(s[1])[1], s[1], s[2],
                                Details(s[1])[2], Details(s[1])[3], clock)
            other == Appointment(Details(o[1])[1], o[1], o[2],
                                 Details(o[1])[2], Details(o[1])[3], clock)
        IN
        last' = [Call("overlaps_with", <<self, other>>)
                    EXCEPT !.result = IF overlaps_with(self, other) THEN "True" ELSE "False"]
    /\ UNCHANGED <<phase, appointments, file, clock, faults>>

SpecOverlap == InitOverlap /\ [][OverlapsWith]_vars

----------------------------------------------------------------------------
(* Properties *)

\* the candidate interval <<start_time, end_time>> overlaps a stored appointment
OverlapsStored(appts, start_time, end_time) ==
    \E i \in 1..Len(appts) :
        start_time < appts[i].end_time /\ end_time > appts[i].start_time

\* reading f back gives exactly the list appts, record for record, in order
FileHolds(f, appts) ==
    /\ f.kind = "list"
    /\ Len(f.data) = Len(appts)
    /\ \A i \in 1..Len(appts) :
        /\ from_dict_raises(f.data[i]) = "none"
        /\ from_dict(f.data[i], 0) = appts[i]

\* the record add_appointment is to store for the arguments args
IsRecordOf(apt, args) ==
    /\ apt.title = args[1]
    /\ apt.start_time = args[2]
    /\ apt.end_time = args[3]
    /\ apt.description = args[4]
    /\ apt.location = args[5]

\* C1: an add_appointment call with start_time < end_time whose interval
\* overlaps no stored appointment returns True, makes the list one longer by
\* appending the new record after the old ones (unchanged, in order), and,
\* when the write succeeds, reloading the file yields a last record equal to
\* the new one in id, title, start_time, end_time, description and location.
C1_AddNonConflicting ==
    [][(/\ last'.name = "add"
        /\ last'.args[2] < last'.args[3]
        /\ ~OverlapsStored(appointments, last'.args[2], last'.args[3]))
       => LET n == Len(appointments)
              reloaded == load_appointments(<<>>, file', "ok", clock')
          IN
          /\ last'.result = "True"
          /\ ~last'.prompted
          /\ Len(appointments') = n + 1
          /\ SubSeq(appointments', 1, n) = appointments
          /\ IsRecordOf(appointments'[n + 1], last'.args)
          /\ last'.save = "ok" =>
                /\ reloaded.raised = "none"
                /\ Len(reloaded.appointments) = n + 1
                /\ reloaded.appointments[n + 1] = appointments'[n + 1]
                /\ IsRecordOf(reloaded.appointments[n + 1], last'.args)
      ]_vars

\* C1 witness: a second appointment has been added without conflict and written
C1_Witness ==
    /\ last.name = "add"
    /\ last.result = "True"
    /\ ~last.prompted
    /\ last.save = "ok"
    /\ Len(appointments) = 2
    /\ appointments[2].description = "d"
    /\ FileHolds(file, appointments)

\* C2: add_appointment with start_time >= end_time returns False and leaves
\* the list and the file as they were; it constructs no record (the clock is
\* not read), raises no prompt and performs no save.
C2_AddRejectsBadInterval ==
    [][(last'.name = "add" /\ last'.args[2] >= last'.args[3])
       => /\ last'.result = "False"
          /\ appointments' = appointments
          /\ file' = file
          /\ clock' = clock
          /\ ~last'.prompted
          /\ last'.conflicts = <<>>
          /\ last'.save = "none"
      ]_vars

\* C2 witness: an add with start_time = end_time has been refused on a non-empty store
C2_Witness ==
    /\ last.name = "add"
    /\ last.args[2] = last.args[3]
    /\ last.result = "False"
    /\ Len(appointments) >= 1

\* C3: remove_appointment(id) with no stored appointment of that id returns
\* False and changes neither list nor file; otherwise it returns True, the
\* list loses exactly one entry, the others keep their order, no entry with
\* that id remains, and the file is rewritten with the smaller list.
C3_RemoveExactlyThatEntry ==
    [][last'.name = "remove"
       => LET id == last'.args[1] IN
          IF \A i \in 1..Len(appointments) : appointments[i].id # id
          THEN /\ last'.result = "False"
               /\ appointments' = appointments
               /\ file' = file
          ELSE /\ last'.result = "True"
               /\ Len(appointments') = Len(appointments) - 1
               /\ \E k \in 1..Len(appointments) :
                    /\ appointments[k].id = id
                    /\ appointments' = SubSeq(appointments, 1, k - 1)
                                         \o SubSeq(appointments, k + 1, Len(appointments))
               /\ \A i \in 1..Len(appointments') : appointments'[i].id # id
               /\ last'.save # "none"
               /\ last'.save = "ok" => FileHolds(file', appointments')
      ]_vars

\* the indices of the stored appointments that overlap candidate, up to i
Overlapping(appts, candidate, i) ==
    {j \in 1..i : overlaps_with(candidate, appts[j])}

\* C4: find_conflicts(candidate) returns exactly the stored appointments the
\* candidate overlaps, each once, in store order, and leaves list and file
\* alone.
C4_FindConflictsExact ==
    [][last'.name = "find_conflicts"
       => LET candidate == last'.args[1]
              found == last'.conflicts
              all == Overlapping(appointments, candidate, Len(appointments))
          IN
          /\ Len(found) = Cardinality(all)
          /\ \A j \in all :
                found[Cardinality(Overlapping(appointments, candidate, j))] = appointments[j]
          /\ appointments' = appointments
          /\ file' = file
      ]_vars

\* C4 witness: a scan of a two-entry store that found both, and they differ
C4_Witness ==
    /\ last.name = "find_conflicts"
    /\ Len(appointments) = 2
    /\ Len(last.conflicts) = 2
    /\ last.conflicts[1] # last.conflicts[2]
    /\ last.conflicts = appointments

\* C5: an add_appointment call with a valid interval that overlaps a stored
\* appointment prompts; the candidate is inserted exactly when the answer is
\* "y" in either case: then it is appended, the save is performed (the file
\* holds the new list when the write succeeds) and the call returns True;
\* on any other answer the call returns False and list and file are
\* unchanged.
C5_ConflictNeedsConfirmation ==
    [][(/\ last'.name = "add"
        /\ last'.args[2] < last'.args[3]
        /\ OverlapsStored(appointments, last'.args[2], last'.args[3]))
       => /\ last'.prompted
          /\ last'.conflicts # <<>>
          /\ IF last'.response \in {"y", "Y"}
             THEN /\ last'.result = "True"
                  /\ Len(appointments') = Len(appointments) + 1
                  /\ SubSeq(appointments', 1, Len(appointments)) = appointments
                  /\ IsRecordOf(appointments'[Len(appointments')], last'.args)
                  /\ last'.save # "none"
                  /\ last'.save = "ok" => FileHolds(file', appointments')
             ELSE /\ last'.result = "False"
                  /\ appointments' = appointments
                  /\ file' = file
                  /\ last'.save = "none"
      ]_vars

\* C5 witness: a conflicting add was confirmed with "Y" and stored
C5_Witness ==
    /\ last.name = "add"
    /\ last.prompted
    /\ last.response = "Y"
    /\ last.result = "True"
    /\ Len(appointments) = 2
    /\ overlaps_with(appointments[2], appointments[1])

\* C6: every appointment in the in-memory list has start_time < end_time.
C6_StartBeforeEnd ==
    \A i \in 1..Len(appointments) :
        appointments[i].start_time < appointments[i].end_time

\* C7: no two stored appointments have the same id; each add assigns an id
\* different from every id already stored, whether or not the clock advanced.
C7_AddAssignsFreshId ==
    [][(last'.name = "add" /\ last'.result = "True")
       => /\ \A i \in 1..Len(appointments) :
                appointments[i].id # appointments'[Len(appointments')].id
          /\ \A i, j \in 1..Len(appointments') :
                i # j => appointments'[i].id # appointments'[j].id
      ]_vars

\* C8: an add or remove that changes the list rewrites the file in the same
\* call, and when that write succeeds the file holds the list record for
\* record and in order; an add or remove that leaves the list alone does
\* not write the file.
C8_MutationRewritesFile ==
    [][last'.name \in {"add", "remove"}
       => /\ appointments' # appointments => last'.save # "none"
          /\ last'.save = "ok" =>
                /\ FileHolds(file', appointments')
                /\ \A i \in 1..Len(appointments') : file'.data[i] = to_dict(appointments'[i])
          /\ appointments' = appointments => (last'.save = "none" /\ file' = file)
      ]_vars

\* C8 witness: a remove has left a non-empty list, written to the file
C8_Witness ==
    /\ last.name = "remove"
    /\ last.result = "True"
    /\ last.save = "ok"
    /\ Len(appointments) >= 1
    /\ FileHolds(file, appointments)

\* the file holds something load_appointments cannot turn into appointments
Malformed(f) ==
    \/ f.kind \in {"invalid", "nonlist"}
    \/ /\ f.kind = "list"
       /\ \E i \in 1..Len(f.data) :
            \/ {"id", "title", "start_time", "end_time"} \ DOMAIN f.data[i] # {}
            \/ "start_time" \in DOMAIN f.data[i] /\ ~IsoParses(f.data[i].start_time)
            \/ "end_time" \in DOMAIN f.data[i] /\ ~IsoParses(f.data[i].end_time)

\* C9: load_appointments, also when run by the constructor, never lets an
\* exception out; on a malformed file it reports an error and leaves the
\* list empty.
C9_LoadNeverAborts ==
    last.name \in {"construct", "load"}
        => /\ last.raised = "none"
           /\ phase # "aborted"
           /\ Malformed(file) => (last.reported /\ appointments = <<>>)

\* C10: when the write in save_appointments fails, the failure is reported,
\* no exception reaches the caller, the list is what the call made of it (an
\* add or remove stays in memory) and the file has not taken the change; a
\* later successful save brings the file back to the full list.
C10_FailedSaveKeepsMemory ==
    [][/\ last'.save \in {"open_fails", "write_fails"} =>
            /\ last'.reported
            /\ last'.raised = "none"
            /\ last'.name = "add" =>
                    /\ last'.result = "True"
                    /\ Len(appointments') = Len(appointments) + 1
                    /\ IsRecordOf(appointments'[Len(appointments')], last'.args)
            /\ last'.name = "remove" =>
                    /\ last'.result = "True"
                    /\ Len(appointments') = Len(appointments) - 1
            /\ last'.name = "save" => appointments' = appointments
            /\ file' \in {file, InvalidJson}
       /\ (last'.save = "ok" /\ ~FileHolds(file, appointments)) =>
            FileHolds(file', appointments')
      ]_vars

\* C10 witness: an add whose write failed left the record in memory and a
\* truncated file behind
C10_Witness ==
    /\ last.name = "add"
    /\ last.save = "write_fails"
    /\ last.result = "True"
    /\ Len(appointments) = 2
    /\ file = InvalidJson

\* C11: A.overlaps_with(B) is true exactly when A.start_time < B.end_time
\* and A.end_time > B.start_time; so it equals B.overlaps_with(A), it is
\* false when A.end_time = B.start_time, and A.overlaps_with(A) is true
\* whenever A.start_time < A.end_time.
C11_OverlapsIsIntersection ==
    [][last'.name = "overlaps_with"
       => LET A == last'.args[1]
              B == last'.args[2]
              answer == last'.result = "True"
          IN
          /\ last'.result \in {"True", "False"}
          /\ answer <=> (A.start_time < B.end_time /\ A.end_time > B.start_time)
          /\ answer <=> overlaps_with(B, A)
          /\ A.end_time = B.start_time => ~answer
          /\ B.end_time = A.start_time => ~answer
          /\ (A = B /\ A.start_time < A.end_time) => answer
          /\ UNCHANGED <<appointments, file>>
      ]_vars

\* C11 witness: two non-empty intervals, the second starting where the
\* first ends, were found not to overlap
C11_Witness ==
    /\ last.name = "overlaps_with"
    /\ last.args[1].start_time < last.args[1].end_time
    /\ last.args[2].start_time < last.args[2].end_time
    /\ last.args[1].end_time = last.args[2].start_time
    /\ last.result = "False"

\* the list got holds exactly the entries of appts at the indices idx, each
\* as often as idx has it
HoldsExactly(got, appts, idx) ==
    \A r \in {got[i] : i \in 1..Len(got)} \cup {appts[i] : i \in idx} :
        Cardinality({i \in 1..Len(got) : got[i] = r})
            = Cardinality({i \in idx : appts[i] = r})

\* no entry of got starts before the one in front of it
AscendingByStart(got) ==
    \A i, j \in 1..Len(got) : i < j => got[i].start_time <= got[j].start_time

\* C12 as stated: get_upcoming_appointments(days) returns exactly the stored
\* appointments with now <= start_time < now + days (one starting exactly at
\* now + days excluded), ascending by start_time, and leaves the stored list
\* and its order unchanged.
C12_UpcomingHalfOpen ==
    [][last'.name = "get_upcoming_appointments"
       => LET days == last'.args[1]
              now == last'.args[2]
              window == {i \in 1..Len(appointments) :
                            /\ now <= appointments[i].start_time
                            /\ appointments[i].start_time < now + days * 24 * 60}
          IN
          /\ HoldsExactly(last'.returned, appointments, window)
          /\ AscendingByStart(last'.returned)
          /\ appointments' = appointments
      ]_vars

\* C12 as amended: the range is closed at its end, now <= start_time <=
\* now + days, so an appointment starting exactly at now + days is returned;
\* the rest as stated.
C12_UpcomingClosed ==
    [][last'.name = "get_upcoming_appointments"
       => LET days == last'.args[1]
              now == last'.args[2]
              window == {i \in 1..Len(appointments) :
                            /\ now <= appointments[i].start_time
                            /\ appointments[i].start_time <= now + days * 24 * 60}
          IN
          /\ HoldsExactly(last'.returned, appointments, window)
          /\ AscendingByStart(last'.returned)
          /\ appointments' = appointments
          /\ file' = file
      ]_vars

\* C12 witness: the query returned both stored appointments in the order of
\* their starts, which is not the store's, the later one starting exactly
\* at now + days
C12_Witness ==
    /\ last.name = "get_upcoming_appointments"
    /\ last.args[1] = 1
    /\ Len(appointments) = 2
    /\ last.returned = <<appointments[2], appointments[1]>>
    /\ appointments[2].start_time = last.args[2]
    /\ appointments[1].start_time = last.args[2] + 24 * 60

\* the indices of the appointments of appts that start on the calendar day
\* of date
StartsOnDayOf(appts, date) ==
    {i \in 1..Len(appts) :
        /\ date - (date % (24 * 60)) <= appts[i].start_time
        /\ appts[i].start_time < date - (date % (24 * 60)) + 24 * 60}

\* C13: get_appointments_for_date(D) returns exactly the stored appointments
\* whose start_time lies in [D at 00:00, D at 00:00 + 24 hours), whatever
\* time of day D carries and wherever they end, in the order of the store;
\* neither that call nor the sorting done by display_schedule changes the
\* stored list or its order.
C13_ForDateIsStartDay ==
    [][last'.name \in {"get_appointments_for_date", "display_schedule"}
       => LET date == last'.args[1]
              got == last'.returned
              day == StartsOnDayOf(appointments, date)
          IN
          /\ appointments' = appointments
          /\ file' = file
          /\ Len(got) = Cardinality(day)
          /\ last'.name = "get_appointments_for_date"
             => \A i \in day : got[Cardinality({j \in day : j <= i})] = appointments[i]
          /\ last'.name = "display_schedule"
             => /\ HoldsExactly(got, appointments, day)
                /\ AscendingByStart(got)
      ]_vars

\* C13 witness: asked for a date carrying a time of day, the query returned
\* the appointment starting at that day's midnight and not the stored one
\* that starts the day before and ends on that day
C13_Witness ==
    /\ last.name = "get_appointments_for_date"
    /\ last.args[1] % (24 * 60) # 0
    /\ Len(appointments) = 2
    /\ appointments[1].start_time < last.args[1] - (last.args[1] % (24 * 60))
    /\ appointments[1].end_time > last.args[1] - (last.args[1] % (24 * 60))
    /\ appointments[2].start_time = last.args[1] - (last.args[1] % (24 * 60))
    /\ last.returned = <<appointments[2]>>

====
